---------------------------- MODULE Spec2Model ----------------------------
(***************************************************************************)
(* A model of QRasterMerge: the derived-path naming function               *)
(* (qraster_merge/io.py), the colour-space dispatcher                      *)
(* (qraster_merge/rio_hist/utils.py), the cutline computation              *)
(* (qraster_merge/cutline.py) and the orchestrator                         *)
(* (qraster_merge/orthophoto_merge_algorithm.py).                          *)
(*                                                                         *)
(* Strings are sequences of one-symbol strings.  "/" is os.sep, "." is     *)
(* os.extsep; every other symbol stands for one ordinary character (or an  *)
(* indivisible run of them, such as "cutline").  Paths follow posixpath.   *)
(* An optional argument (Python None or a value) is the empty set or a     *)
(* singleton.                                                              *)
(***************************************************************************)
EXTENDS Integers, Sequences, FiniteSets, TLC

VARIABLES
    rfp,        \* one call of related_file_path: its arguments and its result
    derived,    \* two (input path, stage) pairs and the paths derived for them
    heap,       \* the arrays in memory, by reference
    conv,       \* one call of convert_arr: its arguments and its outcome
    files,      \* the file system: the content at each path
    cc,         \* one call of compute_cutline: its arguments, locals and outcome
    pa,         \* the frame of processAlgorithm: position, locals, log, result
    canceled,   \* the feedback's cancellation flag, set by the user
    cost_map,   \* the cost grid of compute_linestrings, by <<row, column>>
    ls          \* the routing of one compute_cutline call: position and locals

pathVars == <<rfp>>

stageVars == <<derived>>

convVars == <<heap, conv>>

cutlineVars == <<files, cc>>

algVars == <<pa, canceled>>

lineVars == <<cost_map, ls>>

vars == <<rfp, derived, heap, conv, files, cc, pa, canceled, cost_map, ls>>

---------------------------------------------------------------------------
(* Bounds *)

MaxPathLen == 4

MaxNameLen == 3

MaxSample == 1

NumAtoms == 4

SizeSpread == 1

SideSpread == 7

MaxLayers == 3

---------------------------------------------------------------------------
(* Generic helpers *)

Min(a, b) == IF a < b THEN a ELSE b

Max(a, b) == IF a > b THEN a ELSE b

SeqsUpTo(S, n) == UNION {[1..k -> S] : k \in 0..n}

Some(v) == {v}

None == {}

TheValue(opt) == CHOOSE v \in opt : TRUE

---------------------------------------------------------------------------
(* qraster_merge/io.py with the posixpath functions it calls *)

Sep == "/"

ExtSep == "."

\* str.rfind(c): the last index of c in s, 0 when absent (1-based)
RFind(s, c) ==
    LET idx == {i \in 1..Len(s) : s[i] = c}
    IN  IF idx = {} THEN 0 ELSE CHOOSE i \in idx : \A j \in idx : j <= i

\* str.rstrip("/")
RStripSep(s) ==
    LET keep == {i \in 1..Len(s) : s[i] # Sep}
    IN  IF keep = {} THEN <<>>
        ELSE SubSeq(s, 1, CHOOSE i \in keep : \A j \in keep : j <= i)

\* posixpath.split(p): <<head, tail>>
Split(p) ==
    LET i    == RFind(p, Sep)
        head == SubSeq(p, 1, i)
        tail == SubSeq(p, i + 1, Len(p))
    IN  IF head # <<>> /\ (\E k \in 1..Len(head) : head[k] # Sep)
        THEN <<RStripSep(head), tail>>
        ELSE <<head, tail>>

\* posixpath.splitext on a file name: the extension starts at the last dot,
\* unless only dots precede it
Splitext(filename) ==
    LET sepIndex == RFind(filename, Sep)
        dotIndex == RFind(filename, ExtSep)
    IN  IF dotIndex > sepIndex
           /\ \E k \in (sepIndex + 1)..(dotIndex - 1) : filename[k] # ExtSep
        THEN <<SubSeq(filename, 1, dotIndex - 1),
               SubSeq(filename, dotIndex, Len(filename))>>
        ELSE <<filename, <<>>>>

\* posixpath.join(a, b)
Join(a, b) ==
    IF b # <<>> /\ b[1] = Sep THEN b
    ELSE IF a = <<>> \/ a[Len(a)] = Sep THEN a \o b
    ELSE a \o <<Sep>> \o b

\* related_file_path with the postfix placed after the extension
related_file_path_PostfixAfterExt(input_file_path, prefix, postfix, replace_base, replace_ext) ==
    LET parts    == Split(input_file_path)
        be       == Splitext(parts[2])
        basename == IF replace_base # None THEN TheValue(replace_base) ELSE be[1]
        ext      == IF replace_ext # None THEN TheValue(replace_ext) ELSE be[2]
    IN  Join(parts[1], prefix \o basename \o ext \o postfix)

related_file_path(input_file_path, prefix, postfix, replace_base, replace_ext) ==
    LET parts    == Split(input_file_path)
        path     == parts[1]
        filename == parts[2]
        be       == Splitext(filename)
        basename == IF replace_base # None THEN TheValue(replace_base) ELSE be[1]
        ext      == IF replace_ext # None THEN TheValue(replace_ext) ELSE be[2]
    IN  Join(path, prefix \o basename \o postfix \o ext)

\* the keyword parameters of related_file_path and their defaults
RfpDefaults ==
    [prefix |-> <<>>, postfix |-> <<>>, replace_base |-> None, replace_ext |-> None]

\* A call related_file_path(p, **kwargs): Python binds the keywords to the
\* parameters and raises TypeError for a keyword that is no parameter.
call_related_file_path(p, kwargs) ==
    IF ~(DOMAIN kwargs \subseteq DOMAIN RfpDefaults)
    THEN [ok |-> FALSE, error |-> "TypeError"]
    ELSE LET arg(k) == IF k \in DOMAIN kwargs THEN kwargs[k] ELSE RfpDefaults[k]
         IN  [ok |-> TRUE,
              path |-> related_file_path(p, arg("prefix"), arg("postfix"),
                                         arg("replace_base"), arg("replace_ext"))]

---------------------------------------------------------------------------
(* The stage outputs derived from an input path, as the call sites write them *)

Stages == {"eq", "scaled", "cutline", "cut", "feathered"}

TempDir == <<Sep, "tmp">>

\* The keyword arguments of the related_file_path call that names a stage's
\* output: orthophoto_merge_algorithm.py lines 139, 161, 178, 179 pass
\* temp_dir; cutline.py line 50 does not.
StageKwargs(stage) ==
    CASE stage = "eq"        -> [postfix |-> <<ExtSep, "eq">>, temp_dir |-> Some(TempDir)]
      [] stage = "cutline"   -> [postfix |-> <<ExtSep, "cutline">>,
                                 replace_ext |-> Some(<<ExtSep, "gpkg">>),
                                 temp_dir |-> Some(TempDir)]
      [] stage = "cut"       -> [postfix |-> <<ExtSep, "cut">>, temp_dir |-> Some(TempDir)]
      [] stage = "feathered" -> [postfix |-> <<ExtSep, "feathered">>, temp_dir |-> Some(TempDir)]
      [] stage = "scaled"    -> [postfix |-> <<ExtSep, "scaled">>]

StagePath(p, stage) == call_related_file_path(p, StageKwargs(stage))

---------------------------------------------------------------------------
(* Inputs of the path functions *)

ExamplePath == <<Sep, "a", Sep, "b", Sep, "file", ExtSep, "ext">>

Paths == SeqsUpTo({Sep, ExtSep, "a"}, MaxPathLen) \cup {ExamplePath}

Fragments == {<<>>, <<"x", ExtSep>>, <<ExtSep, "y">>, <<Sep, "x">>}

OptBases == {None, Some(<<>>), Some(<<"n">>)}

OptExts == {None, Some(<<>>), Some(<<ExtSep, "g">>)}

RasterDir == <<Sep, "d">>

RasterPaths ==
    {Join(RasterDir, n) : n \in SeqsUpTo({ExtSep, "a", "t"}, MaxNameLen) \ {<<>>}}

---------------------------------------------------------------------------
(* Specification of the path functions *)

NoCall == [called |-> FALSE]

\* the parts of the program a specification leaves untouched
IdlePath == rfp = NoCall

IdleStagePaths == derived = NoCall

IdleConvert == heap = <<>> /\ conv = NoCall

IdleCutline == files = <<>> /\ cc = NoCall

IdleAlgorithm == pa = NoCall /\ canceled = FALSE

IdleLinestrings == cost_map = <<>> /\ ls = NoCall

\* the arguments of one call of related_file_path
InitPath ==
    /\ \E p \in Paths, prefix \in Fragments, postfix \in Fragments,
          replace_base \in OptBases, replace_ext \in OptExts :
          rfp = [called |-> FALSE, input_file_path |-> p, prefix |-> prefix,
                 postfix |-> postfix, replace_base |-> replace_base,
                 replace_ext |-> replace_ext]
    /\ IdleStagePaths /\ IdleConvert /\ IdleCutline /\ IdleAlgorithm /\ IdleLinestrings

Call_related_file_path ==
    /\ ~rfp.called
    /\ rfp' = [rfp EXCEPT !.called = TRUE] @@
              [result |-> related_file_path(rfp.input_file_path, rfp.prefix, rfp.postfix,
                                            rfp.replace_base, rfp.replace_ext)]
    /\ UNCHANGED <<stageVars, convVars, cutlineVars, algVars, lineVars>>

\* two (input path, stage) pairs
InitStagePaths ==
    /\ \E p1 \in RasterPaths, p2 \in RasterPaths, s1 \in Stages, s2 \in Stages :
          derived = [called |-> FALSE, p1 |-> p1, s1 |-> s1, p2 |-> p2, s2 |-> s2]
    /\ IdlePath /\ IdleConvert /\ IdleCutline /\ IdleAlgorithm /\ IdleLinestrings

DeriveStagePaths ==
    /\ ~derived.called
    /\ derived' = [derived EXCEPT !.called = TRUE] @@
                  [r1 |-> StagePath(derived.p1, derived.s1),
                   r2 |-> StagePath(derived.p2, derived.s2)]
    /\ UNCHANGED <<pathVars, convVars, cutlineVars, algVars, lineVars>>

NextPath == Call_related_file_path

SpecPath == InitPath /\ [][NextPath]_vars

NextStagePaths == DeriveStagePaths

SpecStagePaths == InitStagePaths /\ [][NextStagePaths]_vars

---------------------------------------------------------------------------
(* Claims about the path functions *)

HasSep(s) == \E k \in 1..Len(s) : s[k] = Sep

\* B and E are the base name and the extension of file name f: E starts at
\* the last dot of f provided a character other than a dot precedes it, and
\* is empty otherwise.
IsBaseExt(f, B, E) ==
    LET dotted(b, e) == /\ e # <<>>
                        /\ e[1] = ExtSep
                        /\ \A k \in 2..Len(e) : e[k] # ExtSep
                        /\ \E k \in 1..Len(b) : b[k] # ExtSep
    IN  /\ B \o E = f
        /\ \/ dotted(B, E)
           \/ /\ E = <<>>
              /\ ~\E k \in 0..Len(f) : dotted(SubSeq(f, 1, k), SubSeq(f, k + 1, Len(f)))

\* C7: related_file_path(p, prefix, postfix, replace_base, replace_ext)
\* returns, in the directory of p, the name prefix + B + postfix + E, where B
\* is replace_base if given and else the base name of p, and E is replace_ext
\* if given and else the extension of p (for name parts that hold no path
\* separator); '/a/b/file.ext' with 'x.' and '.y' gives '/a/b/x.file.y.ext'.
C7_RelatedFilePathName ==
    /\ related_file_path(ExamplePath, <<"x", ExtSep>>, <<ExtSep, "y">>, None, None)
         = <<Sep, "a", Sep, "b", Sep, "x", ExtSep, "file", ExtSep, "y", ExtSep, "ext">>
    /\ rfp.called =>
         LET f == Split(rfp.input_file_path)[2]
         IN  \A k \in 0..Len(f) :
               LET b    == SubSeq(f, 1, k)
                   e    == SubSeq(f, k + 1, Len(f))
                   B    == IF rfp.replace_base = None THEN b ELSE TheValue(rfp.replace_base)
                   E    == IF rfp.replace_ext = None THEN e ELSE TheValue(rfp.replace_ext)
                   name == rfp.prefix \o B \o rfp.postfix \o E
               IN  (IsBaseExt(f, b, e) /\ ~HasSep(name)) =>
                      Split(rfp.result) = <<Split(rfp.input_file_path)[1], name>>

C7_Witness ==
    /\ rfp.called
    /\ rfp.input_file_path = ExamplePath
    /\ rfp.prefix = <<"x", ExtSep>>
    /\ rfp.postfix = <<ExtSep, "y">>
    /\ rfp.replace_base = None
    /\ rfp.replace_ext = Some(<<ExtSep, "g">>)
    /\ rfp.result = <<Sep, "a", Sep, "b", Sep, "x", ExtSep, "file", ExtSep, "y", ExtSep, "g">>

\* C8: every (input path, stage) pair has a derived path, and two different
\* pairs over distinct input paths never have the same derived path.
C8_DerivedPathsDistinct ==
    (derived.called /\ derived.p1 # derived.p2) =>
        /\ derived.r1.ok
        /\ derived.r2.ok
        /\ derived.r1.path # derived.r2.path

---------------------------------------------------------------------------
(* qraster_merge/rio_hist/utils.py: convert_arr *)

\* str.lower() of one character
LowerChar(c) ==
    CASE c = "R" -> "r" [] c = "G" -> "g" [] c = "B" -> "b"
      [] c = "L" -> "l" [] c = "C" -> "c" [] c = "H" -> "h"
      [] c = "N" -> "n" [] c = "F" -> "f" [] c = "O" -> "o"
      [] OTHER -> c

\* str.lower()
Lower(s) == [i \in 1..Len(s) |-> LowerChar(s[i])]

\* A colour-space argument: a string (text is the string), or another object
\* (text is its str()).
Str(text) == [isStr |-> TRUE, text |-> text]

Obj(text) == [isStr |-> FALSE, text |-> text]

\* src.lower() if isinstance(src, str) else str(src).lower()
NormalizeName(x) == Lower(x.text)

\* An array is its samples (base) and the conversions applied to them, which
\* stay uninterpreted: each returns a new array and leaves its argument alone.
Array(base, ops) == [base |-> base, ops |-> ops]

rgb_to_xyz(a) == Array(a.base, Append(a.ops, "rgb_to_xyz"))

xyz_to_lab(a) == Array(a.base, Append(a.ops, "xyz_to_lab"))

lab_to_lch(a) == Array(a.base, Append(a.ops, "lab_to_lch"))

lch_to_lab(a) == Array(a.base, Append(a.ops, "lch_to_lab"))

lab_to_xyz(a) == Array(a.base, Append(a.ops, "lab_to_xyz"))

xyz_to_rgb(a) == Array(a.base, Append(a.ops, "xyz_to_rgb"))

\* a new array object holding value v: the heap with it, and its reference
Allocate(h, v) == [heap |-> Append(h, v), ref |-> Len(h) + 1]

Returned(h, ref) == [heap |-> h, outcome |-> "returned", result |-> ref, error |-> <<>>]

Raised(h, kind, message) == [heap |-> h, outcome |-> kind, result |-> 0, error |-> message]

\* convert_arr that hands back its argument when the names agree
convert_arr_NoCopy(h, arr, src, dst) ==
    LET s == NormalizeName(src)
        d == NormalizeName(dst)
        n == Allocate(h, lab_to_lch(xyz_to_lab(rgb_to_xyz(h[arr]))))
        m == Allocate(h, xyz_to_rgb(lab_to_xyz(lch_to_lab(h[arr]))))
    IN  IF s = d THEN Returned(h, arr)
        ELSE IF s = <<"r", "g", "b">> /\ d = <<"l", "c", "h">> THEN Returned(n.heap, n.ref)
        ELSE IF s = <<"l", "c", "h">> /\ d = <<"r", "g", "b">> THEN Returned(m.heap, m.ref)
        ELSE Raised(h, "ValueError", <<"Unsupported color space conversion">>)

\* convert_arr(arr, src, dst) on heap h: the heap after the call and the
\* reference returned, or the error raised
convert_arr(h, arr, src, dst) ==
    LET s == NormalizeName(src)
        d == NormalizeName(dst)
    IN  IF s = d
        THEN LET c == Allocate(h, h[arr])                           \* arr.copy()
             IN  Returned(c.heap, c.ref)
        ELSE IF s = <<"r", "g", "b">> /\ d = <<"l", "c", "h">>
        THEN LET xyz == rgb_to_xyz(h[arr])
                 lab == xyz_to_lab(xyz)
                 n   == Allocate(h, lab_to_lch(lab))
             IN  Returned(n.heap, n.ref)
        ELSE IF s = <<"l", "c", "h">> /\ d = <<"r", "g", "b">>
        THEN LET lab == lch_to_lab(h[arr])
                 xyz == lab_to_xyz(lab)
                 n   == Allocate(h, xyz_to_rgb(xyz))
             IN  Returned(n.heap, n.ref)
        ELSE Raised(h, "ValueError", <<"Unsupported color space conversion">>)

---------------------------------------------------------------------------
(* Specification of convert_arr: one call, after which the caller may write *)
(* into the array it got back                                               *)

Samples == 0..MaxSample

ColourNames ==
    { Str(<<"r", "g", "b">>), Str(<<"R", "G", "B">>), Str(<<"l", "c", "h">>),
      Str(<<"L", "c", "h">>), Str(<<"f", "o", "o">>), Str(<<"F", "O", "O">>),
      Str(<<>>), Obj(<<"N", "o", "n", "e">>), Str(<<"n", "o", "n", "e">>) }

InitConvert ==
    /\ \E base \in Samples, tag \in {<<>>, <<"rgb_to_xyz">>} :
          heap = <<Array(base, tag)>>
    /\ \E src \in ColourNames, dst \in ColourNames :
          conv = [called |-> FALSE, arr |-> 1, src |-> src, dst |-> dst]
    /\ IdlePath /\ IdleStagePaths /\ IdleCutline /\ IdleAlgorithm /\ IdleLinestrings

Call_convert_arr ==
    /\ ~conv.called
    /\ LET r == convert_arr(heap, conv.arr, conv.src, conv.dst)
       IN  /\ heap' = r.heap
           /\ conv' = [conv EXCEPT !.called = TRUE] @@
                      [outcome |-> r.outcome, result |-> r.result, error |-> r.error,
                       before |-> heap, input |-> heap[conv.arr],
                       value |-> IF r.outcome = "returned" THEN r.heap[r.result]
                                 ELSE Array(0, <<>>)]
    /\ UNCHANGED <<pathVars, stageVars, cutlineVars, algVars, lineVars>>

\* the caller writes a sample into the array that convert_arr returned
MutateResult ==
    /\ conv.called
    /\ conv.outcome = "returned"
    /\ \E v \in Samples :
          /\ v # heap[conv.result].base
          /\ heap' = [heap EXCEPT ![conv.result].base = v]
    /\ UNCHANGED <<conv, pathVars, stageVars, cutlineVars, algVars, lineVars>>

NextConvert == Call_convert_arr \/ MutateResult

SpecConvert == InitConvert /\ [][NextConvert]_vars

---------------------------------------------------------------------------
(* Claims about convert_arr *)

RGB == <<"r", "g", "b">>

LCH == <<"l", "c", "h">>

\* C9 (as amended): convert_arr dispatches on the lower-cased names (str()
\* of a non-string): equal names give a copy, equal in value to arr and a
\* distinct object; (rgb, lch) gives lab_to_lch(xyz_to_lab(rgb_to_xyz(arr)))
\* and (lch, rgb) gives xyz_to_rgb(lab_to_xyz(lch_to_lab(arr))); every other
\* pair raises ValueError 'Unsupported color space conversion' and returns no
\* array; arr is never changed, neither by the call nor by writing into the
\* result.
C9_ConvertDispatch ==
    conv.called =>
        LET s == Lower(conv.src.text)
            d == Lower(conv.dst.text)
            fresh == /\ conv.outcome = "returned"
                     /\ conv.result # conv.arr
                     /\ conv.result \notin DOMAIN conv.before
        IN  /\ s = d => fresh /\ conv.value = conv.input
            /\ (s # d /\ s = RGB /\ d = LCH) =>
                  /\ fresh
                  /\ conv.value = Array(conv.input.base,
                        conv.input.ops \o <<"rgb_to_xyz", "xyz_to_lab", "lab_to_lch">>)
            /\ (s # d /\ s = LCH /\ d = RGB) =>
                  /\ fresh
                  /\ conv.value = Array(conv.input.base,
                        conv.input.ops \o <<"lch_to_lab", "lab_to_xyz", "xyz_to_rgb">>)
            /\ (s # d /\ <<s, d>> \notin {<<RGB, LCH>>, <<LCH, RGB>>}) =>
                  /\ conv.outcome = "ValueError"
                  /\ conv.error = <<"Unsupported color space conversion">>
                  /\ conv.result = 0
                  /\ heap = conv.before
            /\ heap[conv.arr] = conv.input
            /\ \A r \in DOMAIN conv.before : heap[r] = conv.before[r]

\* a copy was returned for names that differ only in case, the caller wrote
\* into it, and arr is as it was
C9_Witness ==
    /\ conv.called
    /\ conv.src # conv.dst
    /\ Lower(conv.src.text) = Lower(conv.dst.text)
    /\ conv.outcome = "returned"
    /\ heap[conv.result] # conv.value
    /\ heap[conv.arr] = conv.input

\* C9 (as stated): the dispatch is on the names as given: every pair of
\* different names other than (rgb, lch) and (lch, rgb) fails.
C9_OtherPairsFail ==
    (/\ conv.called
     /\ conv.src # conv.dst
     /\ <<conv.src, conv.dst>> \notin {<<Str(RGB), Str(LCH)>>, <<Str(LCH), Str(RGB)>>})
        => conv.outcome = "ValueError"

---------------------------------------------------------------------------
(* qraster_merge/cutline.py: compute_cutline                                *)
(*                                                                         *)
(* A file is absent, a raster of some width and height, or a vector        *)
(* dataset with a sequence of polygon features (feature 1 first, as in a   *)
(* GeoPackage).  The plane is a row of NumAtoms unit cells; a polygon is a *)
(* run of adjacent cells, its area their number.  What the resampler, the  *)
(* edge detector, the router and the polygonizer return depends on pixel   *)
(* values that are not modelled: every outcome they can have is allowed.   *)
(***************************************************************************)

NoFile == [kind |-> "none"]

Raster(w, h) == [kind |-> "raster", width |-> w, height |-> h]

Vector(features) == [kind |-> "vector", features |-> features]

\* os.path.exists / os.path.isfile
Exists(fs, p) == fs[p].kind # "none"

\* os.remove
Remove(fs, p) == [fs EXCEPT ![p] = NoFile]

Atoms == 1..NumAtoms

Interval(a, b) == a..b

Polygons == {Interval(a, b) : a \in Atoms, b \in Atoms} \ {{}}

Area(p) == Cardinality(p)

\* shapely: crop_poly.contains(p)
Contains(crop, p) == p \subseteq crop

Intersects(crop, p) == crop \cap p # {}

\* polygonize(unary_union(linestrings)): the faces closed by the routed seams,
\* polygons with disjoint interiors; which ones depends on the routes
PolygonizeOutputs ==
    {P \in SUBSET Polygons : \A p \in P, q \in P : p # q => p \cap q = {}}

\* unary_union(polygons): the connected components of the union
unary_union(polygons) ==
    LET U == UNION polygons
    IN  {c \in Polygons : /\ c \subseteq U
                          /\ \A a \in c : (a - 1 \in U => a - 1 \in c)
                                       /\ (a + 1 \in U => a + 1 \in c)}

\* the orders in which a multi-polygon may list its parts
Orderings(S) ==
    {q \in [1..Cardinality(S) -> S] : \A i, j \in 1..Cardinality(S) : i # j => q[i] # q[j]}

ScaleOne == 10000

ScaleMin == 1

MinNumberLines == 8

PixelsPerLine == 256

TooSmallOffset == 2

CeilDiv(n, d) == (n + d - 1) \div d

\* scale = max(0.0001, min(1, scale)), in ten-thousandths
ClampScale(scale) == Max(ScaleMin, Min(ScaleOne, scale))

\* gdal:translate -outsize <scale*100>% 0: the size of the resampled raster,
\* each side the scaled side rounded down or up and at least one pixel
ResampledSizes(w, h, scale) ==
    LET side(n) == {Max(1, (n * scale) \div ScaleOne), Max(1, CeilDiv(n * scale, ScaleOne))}
    IN  side(w) \X side(h)

\* int(max(8, math.ceil(min(width, height) / 256.0)))
NumberLines(width, height) == Max(MinNumberLines, CeilDiv(Min(width, height), PixelsPerLine))

\* int(width / number_lines)
LineOffset(size, number_lines) == size \div number_lines

\* the size check with < in place of <=
TooSmall_Strict(line_hor_offset, line_ver_offset) ==
    line_hor_offset < TooSmallOffset \/ line_ver_offset < TooSmallOffset

\* line_hor_offset <= 2 or line_ver_offset <= 2
TooSmall(line_hor_offset, line_ver_offset) ==
    line_hor_offset <= TooSmallOffset \/ line_ver_offset <= TooSmallOffset

\* the filter keeping every region that touches the crop area
RetainedPolygons_Intersecting(regions, crop_poly) ==
    IF crop_poly # None
    THEN {p \in regions : Intersects(TheValue(crop_poly), p)}
    ELSE regions

\* lines 147-153: the regions kept
RetainedPolygons(regions, crop_poly) ==
    IF crop_poly # None
    THEN {p \in regions : Contains(TheValue(crop_poly), p)}
    ELSE regions

\* the search taking a later part of equal area (>= in place of >)
LargestCutline_LastOfEqualArea(geoms) ==
    LET n    == Len(geoms)
        best == CHOOSE i \in 1..n :
                   /\ \A j \in 1..n : Area(geoms[j]) <= Area(geoms[i])
                   /\ \A j \in (i + 1)..n : Area(geoms[j]) < Area(geoms[i])
    IN  geoms[best]

\* lines 163-172: the polygon itself, or the first part of the largest area
LargestCutline(geoms) ==
    LET n    == Len(geoms)
        best == CHOOSE i \in 1..n :
                   /\ \A j \in 1..n : Area(geoms[j]) <= Area(geoms[i])
                   /\ \A j \in 1..(i - 1) : Area(geoms[j]) < Area(geoms[i])
    IN  geoms[best]

\* the writer adding its feature to the dataset already at the destination
WriteCutline_Append(fs, destination, polygon) ==
    IF Exists(fs, destination) /\ fs[destination].kind = "vector"
    THEN [fs EXCEPT ![destination] = Vector(Append(fs[destination].features, polygon))]
    ELSE [fs EXCEPT ![destination] = Vector(<<polygon>>)]

\* lines 185-193: remove what is at the destination, write one feature
WriteCutline(fs, destination, polygon) ==
    LET cleared == IF Exists(fs, destination) THEN Remove(fs, destination) ELSE fs
    IN  [cleared EXCEPT ![destination] = Vector(<<polygon>>)]

\* the locals of a call that has not got anywhere yet
Frame(fs) ==
    [files |-> fs, outcome |-> "running", warnings |-> <<>>, opened |-> <<>>,
     scaled_orthophoto |-> None, width |-> 0, height |-> 0, number_lines |-> 0,
     line_hor_offset |-> 0, line_ver_offset |-> 0, crop_poly |-> None,
     regions |-> {}, polygons |-> {}, geoms |-> <<>>, largest_cutline |-> {},
     written |-> 0, translate_runs |-> 0]

\* an exit that removes the scaled copy before it returns
Exit_Cleanup(frame, kind) ==
    [frame EXCEPT !.outcome = kind, !.warnings = Append(@, kind),
                  !.files = IF frame.scaled_orthophoto # None
                            THEN Remove(@, TheValue(frame.scaled_orthophoto))
                            ELSE @]

\* WARNING(...) and return
Exit(frame, kind) ==
    [frame EXCEPT !.outcome = kind, !.warnings = Append(@, kind)]

\* lines 145-199, for one outcome of polygonize and one order of the parts
FinishCutline(frame, destination, regions, geoms) ==
    LET largest == LargestCutline(geoms)
        wrote   == WriteCutline(frame.files, destination, largest)
        cleaned == IF frame.scaled_orthophoto # None
                      /\ Exists(wrote, TheValue(frame.scaled_orthophoto))
                   THEN Remove(wrote, TheValue(frame.scaled_orthophoto))
                   ELSE wrote
    IN  [frame EXCEPT !.geoms = geoms, !.largest_cutline = largest,
                      !.files = cleaned, !.written = 1, !.outcome = "written"]

\* lines 83-199, once the raster is open
AfterOpen(frame, destination, crop_area_file) ==
    IF TooSmall(frame.line_hor_offset, frame.line_ver_offset)
    THEN {Exit(frame, "too_small")}
    ELSE LET load == crop_area_file # None /\ Exists(frame.files, TheValue(crop_area_file))
             crop_f == IF load THEN frame.files[TheValue(crop_area_file)].features ELSE <<>>
         IN  IF load /\ Len(crop_f) = 0
             THEN {Exit(frame, "crop_empty")}
             ELSE LET crop_poly == IF load THEN Some(crop_f[1]) ELSE None
                  IN  UNION {
                        LET polygons == RetainedPolygons(regions, crop_poly)
                            f2 == [frame EXCEPT !.crop_poly = crop_poly,
                                                !.regions = regions,
                                                !.polygons = polygons]
                        IN  IF polygons = {}
                            THEN {Exit(f2, "no_polygons")}
                            ELSE {FinishCutline(f2, destination, regions, geoms) :
                                     geoms \in Orderings(unary_union(polygons))}
                        : regions \in PolygonizeOutputs }

\* lines 72-77: open the raster, read its size, lay out the lines
OpenRaster(frame, orthophoto_file) ==
    LET width        == frame.files[orthophoto_file].width
        height       == frame.files[orthophoto_file].height
        number_lines == NumberLines(width, height)
    IN  [frame EXCEPT !.opened = orthophoto_file, !.width = width, !.height = height,
                      !.number_lines = number_lines,
                      !.line_hor_offset = LineOffset(width, number_lines),
                      !.line_ver_offset = LineOffset(height, number_lines)]

\* compute_cutline(orthophoto_file, destination, scale, crop_area_file) on the
\* file system fs: the set of frames it can end in
compute_cutline(fs, orthophoto_file, destination, scale, crop_area_file) ==
    IF Exists(fs, orthophoto_file)
    THEN LET s == ClampScale(scale)
         IN  IF s < ScaleOne
             THEN LET scaled_orthophoto == StagePath(orthophoto_file, "scaled").path
                  IN  UNION {
                        LET fs2 == [fs EXCEPT ![scaled_orthophoto] = Raster(size[1], size[2])]
                            fr  == [Frame(fs2) EXCEPT !.scaled_orthophoto = Some(scaled_orthophoto),
                                                      !.translate_runs = 1]
                        IN  AfterOpen(OpenRaster(fr, scaled_orthophoto), destination, crop_area_file)
                        : size \in ResampledSizes(fs[orthophoto_file].width,
                                                  fs[orthophoto_file].height, s) }
             ELSE AfterOpen(OpenRaster(Frame(fs), orthophoto_file), destination, crop_area_file)
    ELSE {Exit(Frame(fs), "missing")}

---------------------------------------------------------------------------
(* Specification of compute_cutline: one call on a file system that holds  *)
(* or lacks the orthophoto, the crop dataset and an earlier destination    *)

OrthoPath == <<Sep, "d", Sep, "a", ExtSep, "tif">>

ScaledOrthoPath == <<Sep, "d", Sep, "a", ExtSep, "scaled", ExtSep, "tif">>

DestPath == <<Sep, "d", Sep, "a", ExtSep, "cutline", ExtSep, "gpkg">>

CropPath == <<Sep, "d", Sep, "crop", ExtSep, "gpkg">>

FsPaths == {OrthoPath, ScaledOrthoPath, DestPath, CropPath}

\* sizes around the smallest raster that passes the size check (24 = 3 * 8),
\* the spec's 16x16, sizes that a quarter scale brings there, and sizes that
\* need more than eight lines
RasterSizes ==
    ((24 - SizeSpread)..(24 + SizeSpread)) \X ((24 - SizeSpread)..(24 + SizeSpread))
    \cup {<<16, 16>>, <<95, 64>>, <<96, 96>>, <<2049, 2305>>, <<2305, 2400>>}

\* 0.0 (clamped up), 0.25 (what processAlgorithm passes), 1.0, 2.0 (clamped down)
Scales == {0, 2500, ScaleOne, 2 * ScaleOne}

OldCutline == Vector(<<Interval(1, 1), Interval(NumAtoms, NumAtoms)>>)

InitCutline ==
    /\ \E o \in {NoFile} \cup {Raster(sz[1], sz[2]) : sz \in RasterSizes},
          d \in {NoFile, OldCutline},
          c \in {NoFile, Vector(<<>>)} \cup {Vector(<<p>>) : p \in Polygons} :
          files = [p \in FsPaths |->
                      CASE p = OrthoPath -> o
                        [] p = DestPath  -> d
                        [] p = CropPath  -> c
                        [] OTHER         -> NoFile]
    /\ \E scale \in Scales, crop_area_file \in {None, Some(CropPath)} :
          cc = [called |-> FALSE, orthophoto_file |-> OrthoPath, destination |-> DestPath,
                scale |-> scale, crop_area_file |-> crop_area_file]
    /\ IdlePath /\ IdleStagePaths /\ IdleConvert /\ IdleAlgorithm /\ IdleLinestrings

Call_compute_cutline ==
    /\ ~cc.called
    /\ \E r \in compute_cutline(files, cc.orthophoto_file, cc.destination,
                                cc.scale, cc.crop_area_file) :
          /\ files' = r.files
          /\ cc' = [cc EXCEPT !.called = TRUE] @@ [before |-> files] @@
                   [k \in DOMAIN r \ {"files"} |-> r[k]]
    /\ UNCHANGED <<pathVars, stageVars, convVars, algVars, lineVars>>

NextCutline == Call_compute_cutline

SpecCutline == InitCutline /\ [][NextCutline]_vars

---------------------------------------------------------------------------
(* Claims about compute_cutline *)

EarlyExits == {"missing", "too_small", "crop_empty", "no_polygons"}

DestinationUntouched == files[cc.destination] = cc.before[cc.destination]

\* the raster the call opened is on disk with the size the call read
\* (the temporary scaled copy is removed again after a successful run)
OpenedRaster ==
    IF Exists(files, cc.opened) THEN files[cc.opened] ELSE Raster(cc.width, cc.height)

\* C1: on an existing raster of width W and height H compute_cutline uses
\* d = max(8, ceil(min(W,H)/256)) divisions and spacings floor(W/d) and
\* floor(H/d); it stops with the 'too small' warning, writing nothing to the
\* destination, exactly when one of the spacings is <= 2; 16x16 always stops.
C1_TooSmallExactly ==
    (cc.called /\ Exists(cc.before, cc.orthophoto_file)) =>
        LET W == OpenedRaster.width
            H == OpenedRaster.height
            m == IF W < H THEN W ELSE H
            d == CHOOSE n \in 8..(9 + m \div 256) :
                    /\ 256 * n >= m
                    /\ n = 8 \/ 256 * (n - 1) < m
        IN  /\ W = cc.width /\ H = cc.height
            /\ cc.number_lines = d
            /\ d * cc.line_hor_offset <= W /\ W < d * (cc.line_hor_offset + 1)
            /\ d * cc.line_ver_offset <= H /\ H < d * (cc.line_ver_offset + 1)
            /\ cc.outcome = "too_small" <=> (W < 3 * d \/ H < 3 * d)
            /\ cc.outcome = "too_small" =>
                  /\ cc.warnings = <<"too_small">>
                  /\ cc.written = 0
                  /\ DestinationUntouched
            /\ (W = 16 /\ H = 16) => cc.outcome = "too_small"

\* a raster whose spacing is exactly 2 in one axis only was refused
C1_Witness ==
    /\ cc.called
    /\ cc.outcome = "too_small"
    /\ cc.line_hor_offset = 2
    /\ cc.line_ver_offset = 3
    /\ cc.number_lines = 8

\* C2: a call with an orthophoto path that does not exist, or with a crop-area
\* path that is supplied and does not exist, warns and writes no cutline.
C2_MissingInputWarns ==
    (/\ cc.called
     /\ \/ ~Exists(cc.before, cc.orthophoto_file)
        \/ /\ cc.crop_area_file # None
           /\ ~Exists(cc.before, TheValue(cc.crop_area_file)))
        => /\ cc.warnings # <<>>
           /\ cc.written = 0
           /\ DestinationUntouched

\* C3: every call ends either in success, the destination then holding
\* exactly one polygon feature whatever was there before, or in one of the
\* early exits (missing orthophoto, too-small raster, empty crop dataset, no
\* polygons), with one warning and the destination neither written nor
\* removed; no call writes more than one feature.
C3_OneFeatureOrNone ==
    cc.called =>
        \/ /\ cc.outcome = "written"
           /\ cc.warnings = <<>>
           /\ cc.written = 1
           /\ files[cc.destination].kind = "vector"
           /\ Len(files[cc.destination].features) = 1
           /\ files[cc.destination].features[1] \in Polygons
        \/ /\ cc.outcome \in EarlyExits
           /\ cc.warnings = <<cc.outcome>>
           /\ cc.written = 0
           /\ DestinationUntouched

\* a successful call replaced the two features of an earlier file by one
C3_Witness ==
    /\ cc.called
    /\ cc.outcome = "written"
    /\ cc.before[cc.destination] = OldCutline
    /\ Len(files[cc.destination].features) = 1

\* C10: with a crop polygon supplied and loaded, the regions kept are those
\* the crop polygon contains, so a cutline that is written lies within the
\* crop polygon; if it contains no region the call warns and writes nothing.
C10_CutlineWithinCrop ==
    (cc.called /\ cc.crop_poly # None) =>
        LET crop == TheValue(cc.crop_poly)
        IN  /\ crop = cc.before[TheValue(cc.crop_area_file)].features[1]
            /\ \A p \in cc.regions : p \in cc.polygons <=> p \subseteq crop
            /\ cc.polygons \subseteq cc.regions
            /\ cc.outcome = "written" =>
                  /\ files[cc.destination].features[1] \subseteq crop
                  /\ files[cc.destination].features[1] # {}
            /\ (\A p \in cc.regions : ~(p \subseteq crop)) =>
                  /\ cc.outcome = "no_polygons"
                  /\ cc.warnings = <<"no_polygons">>
                  /\ cc.written = 0
                  /\ DestinationUntouched

\* a cutline was written although one of the regions straddled the crop edge
C10_Witness ==
    /\ cc.called
    /\ cc.crop_poly # None
    /\ cc.outcome = "written"
    /\ \E p \in cc.regions : p \cap TheValue(cc.crop_poly) # {} /\ ~(p \subseteq TheValue(cc.crop_poly))
    /\ files[cc.destination].features[1] \subseteq TheValue(cc.crop_poly)

\* C13: the retained regions are unioned into connected components; the
\* component written as the cutline has an area at least that of every other
\* component, and of the components of that largest area it is the first in
\* the order the union lists them.
C13_LargestFirstInOrder ==
    (cc.called /\ cc.outcome = "written") =>
        LET n == Len(cc.geoms)
            G == {cc.geoms[i] : i \in 1..n}
        IN  /\ n >= 1 /\ Cardinality(G) = n
            /\ UNION G = UNION cc.polygons
            /\ \A g \in G : /\ g # {}
                            /\ \A a \in g, b \in g, m \in Atoms : (a < m /\ m < b) => m \in g
            /\ \A g \in G, h \in G :
                  g # h => \A a \in g, b \in h : a # b /\ a + 1 # b /\ b + 1 # a
            /\ \E i \in 1..n :
                  /\ cc.largest_cutline = cc.geoms[i]
                  /\ \A j \in 1..n : Cardinality(cc.geoms[j]) <= Cardinality(cc.geoms[i])
                  /\ \A j \in 1..(i - 1) : Cardinality(cc.geoms[j]) < Cardinality(cc.geoms[i])
            /\ files[cc.destination].features = <<cc.largest_cutline>>

\* two components of the same, largest, area: the first listed was written
C13_Witness ==
    /\ cc.called
    /\ cc.outcome = "written"
    /\ Len(cc.geoms) >= 2
    /\ Cardinality(cc.geoms[1]) = Cardinality(cc.geoms[2])
    /\ \A j \in 1..Len(cc.geoms) : Cardinality(cc.geoms[j]) <= Cardinality(cc.geoms[1])
    /\ files[cc.destination].features = <<cc.geoms[1]>>

\* C14: the resampler runs, and the scaled copy is created, only when the
\* orthophoto exists and the scale is below 1 (0 is clamped to 0.0001, 2 to
\* 1); the copy is removed only by a call that wrote its cutline: after the
\* too-small, empty-crop and no-polygons exits it is still on disk.  The
\* orthophoto itself is never removed.
C14_ScaledCopyRemovedOnSuccessOnly ==
    cc.called =>
        /\ cc.translate_runs =
              (IF Exists(cc.before, cc.orthophoto_file) /\ cc.scale < 10000 THEN 1 ELSE 0)
        /\ cc.translate_runs = 0 =>
              /\ cc.scaled_orthophoto = None
              /\ files[ScaledOrthoPath] = cc.before[ScaledOrthoPath]
              /\ cc.outcome # "missing" => cc.opened = cc.orthophoto_file
        /\ cc.translate_runs = 1 =>
              /\ cc.scaled_orthophoto = Some(ScaledOrthoPath)
              /\ cc.opened = ScaledOrthoPath
              /\ cc.outcome \in {"too_small", "crop_empty", "no_polygons", "written"}
              /\ cc.outcome \in {"too_small", "crop_empty", "no_polygons"} =>
                    /\ files[ScaledOrthoPath].kind = "raster"
                    /\ files[ScaledOrthoPath].width = cc.width
                    /\ files[ScaledOrthoPath].height = cc.height
              /\ cc.outcome = "written" =>
                    /\ files[ScaledOrthoPath] = NoFile
                    /\ files[cc.destination].kind = "vector"
        /\ files[cc.orthophoto_file] = cc.before[cc.orthophoto_file]

\* a quarter-scale call that found no polygon inside the crop area returned
\* with its scaled copy left on disk
C14_Witness ==
    /\ cc.called
    /\ cc.scale = 2500
    /\ cc.outcome = "no_polygons"
    /\ cc.before[ScaledOrthoPath] = NoFile
    /\ files[ScaledOrthoPath].kind = "raster"

---------------------------------------------------------------------------
(* qraster_merge/cutline.py: compute_linestrings (lines 93-142)             *)
(*                                                                         *)
(* The routing part of a compute_cutline call that has passed the size     *)
(* check, in steps: entering compute_linestrings for a direction, writing  *)
(* one base line into the cost grid, routing one path.  The cost grid is   *)
(* indexed <<row, column>>; a point is <<x, y>>.  The least-cost path the  *)
(* router finds is not computed: a linestring is its two end points.       *)
(* ls.log lists what has been done to the cost grid and with it, in order. *)
(***************************************************************************)

DefaultCost == 1

LowCost == 0

Lava == 9999

\* range(start, stop, step) with the stop value included
Range_Inclusive(start, stop, step) ==
    LET n == IF stop >= start THEN (stop - start) \div step + 1 ELSE 0
    IN  [k \in 1..n |-> start + (k - 1) * step]

\* range(start, stop, step), step > 0
Range(start, stop, step) ==
    LET n == IF stop > start THEN CeilDiv(stop - start, step) ELSE 0
    IN  [k \in 1..n |-> start + (k - 1) * step]

\* lines 141-142: the order of the two calls
Directions_HorizontalFirst == <<"horizontal", "vertical">>

Directions == <<"vertical", "horizontal">>

\* np.full((height, width), 1), then cost_map[edges==True] = 0
FreshCostMap(height, width, edges) ==
    [c \in (0..(height - 1)) \X (0..(width - 1)) |->
        IF c \in edges THEN LowCost ELSE DefaultCost]

\* skimage.draw.line(*a, *b) for a segment parallel to an axis: its points
Line(a, b) ==
    {<<x, y>> : x \in Min(a[1], b[1])..Max(a[1], b[1]),
                y \in Min(a[2], b[2])..Max(a[2], b[2])}

\* rr,cc = line(*a, *b); cost_map[cc, rr] = 9999
Rasterize(cm, l) ==
    [c \in DOMAIN cm |-> IF <<c[2], c[1]>> \in Line(l[1], l[2]) THEN Lava ELSE cm[c]]

\* lines 108 and 117: the base lines of a direction, each a pair of end points
BaseLines(direction, width, height, line_hor_offset, line_ver_offset) ==
    IF direction = "vertical"
    THEN LET r == Range(line_hor_offset, width - line_hor_offset, line_hor_offset)
         IN  [k \in DOMAIN r |-> <<<<r[k], 0>>, <<r[k], height - 1>>>>]
    ELSE LET r == Range(line_ver_offset, height - line_ver_offset, line_ver_offset)
         IN  [k \in DOMAIN r |-> <<<<0, r[k]>>, <<width - 1, r[k]>>>>]

\* a point moved by dx and dy
Shift(p, dx, dy) == <<p[1] + dx, p[2] + dy>>

\* lines 109-115 and 118-124: every base line moved back by half an offset,
\* then the last one moved forward by as much
Points(direction, lines, line_hor_offset, line_ver_offset) ==
    LET pad_x == IF direction = "vertical" THEN line_hor_offset \div 2 ELSE 0
        pad_y == IF direction = "vertical" THEN 0 ELSE line_ver_offset \div 2
        n     == Len(lines)
    IN  [i \in 1..(n + 1) |->
            IF i <= n
            THEN <<Shift(lines[i][1], -pad_x, -pad_y), Shift(lines[i][2], -pad_x, -pad_y)>>
            ELSE <<Shift(lines[n][1], pad_x, pad_y), Shift(lines[n][2], pad_x, pad_y)>>]

\* the coordinate that tells the lines of a direction apart
Position(direction, p) == IF direction = "vertical" THEN p[1] ELSE p[2]

Event(op, direction, at) == [op |-> op, direction |-> direction, at |-> at]

---------------------------------------------------------------------------
(* Specification of the routing: one compute_cutline call on a raster that *)
(* passes the size check, with one of a few edge masks                     *)

\* the smallest side that passes the size check with eight lines
MinSide == (TooSmallOffset + 1) * MinNumberLines

Sides == MinSide..(MinSide + SideSpread)

\* canny(rast): no edge, an edge along one column, an edge along the diagonal
EdgeMasks(height, width) ==
    {{},
     {<<y, 4>> : y \in 0..(height - 1)},
     {<<k, k>> : k \in 0..(Min(height, width) - 1)}}

InitLinestrings ==
    /\ \E width \in Sides, height \in Sides :
        \E edges \in EdgeMasks(height, width) :
          LET number_lines == NumberLines(width, height)
          IN  /\ ~TooSmall(LineOffset(width, number_lines), LineOffset(height, number_lines))
              /\ ls = [pc |-> "call", phase |-> 1, width |-> width, height |-> height,
                       edges |-> edges, number_lines |-> number_lines,
                       line_hor_offset |-> LineOffset(width, number_lines),
                       line_ver_offset |-> LineOffset(height, number_lines),
                       direction |-> "", lines |-> <<>>, points |-> <<>>,
                       written |-> 0, routed |-> 0, linestrings |-> <<>>, log |-> <<>>]
    /\ cost_map = <<>>
    /\ IdlePath /\ IdleStagePaths /\ IdleConvert /\ IdleCutline /\ IdleAlgorithm

\* lines 99-124: compute_linestrings(direction) up to the barriers; a
\* direction without a base line ends the call at lines[-1]
EnterLinestrings ==
    /\ ls.pc = "call"
    /\ LET direction == Directions[ls.phase]
           lines     == BaseLines(direction, ls.width, ls.height,
                                  ls.line_hor_offset, ls.line_ver_offset)
       IN  /\ cost_map' = FreshCostMap(ls.height, ls.width, ls.edges)
           /\ ls' = IF Len(lines) = 0
                    THEN [ls EXCEPT !.pc = "IndexError", !.direction = direction,
                                    !.log = Append(@, Event("init", direction, 0))]
                    ELSE [ls EXCEPT !.pc = "barriers", !.direction = direction,
                                    !.lines = lines,
                                    !.points = Points(direction, lines, ls.line_hor_offset,
                                                      ls.line_ver_offset),
                                    !.written = 0, !.routed = 0,
                                    !.log = Append(@, Event("init", direction, 0))]
    /\ UNCHANGED <<pathVars, stageVars, convVars, cutlineVars, algVars>>

\* lines 126-128: one turn of the loop over the base lines
WriteBarrier ==
    /\ ls.pc = "barriers"
    /\ LET l == ls.lines[ls.written + 1]
       IN  /\ cost_map' = Rasterize(cost_map, l)
           /\ ls' = [ls EXCEPT !.written = @ + 1,
                               !.pc = IF ls.written + 1 = Len(ls.lines) THEN "route" ELSE "barriers",
                               !.log = Append(@, Event("barrier", ls.direction,
                                                       Position(ls.direction, l[1])))]
    /\ UNCHANGED <<pathVars, stageVars, convVars, cutlineVars, algVars>>

\* lines 131-139: one turn of the loop over the end points; after the last
\* one the call returns, to line 142 or to line 145
RoutePath ==
    /\ ls.pc = "route"
    /\ LET p    == ls.points[ls.routed + 1]
           last == ls.routed + 1 = Len(ls.points)
       IN  ls' = [ls EXCEPT !.routed = @ + 1,
                            !.linestrings = Append(@, [direction |-> ls.direction,
                                                       a |-> p[1], b |-> p[2]]),
                            !.log = Append(@, Event("route", ls.direction,
                                                    Position(ls.direction, p[1]))),
                            !.pc = IF ~last THEN "route"
                                   ELSE IF ls.phase < Len(Directions) THEN "call"
                                   ELSE "polygonize",
                            !.phase = IF last /\ ls.phase < Len(Directions) THEN @ + 1 ELSE @]
    /\ UNCHANGED <<cost_map, pathVars, stageVars, convVars, cutlineVars, algVars>>

NextLinestrings == EnterLinestrings \/ WriteBarrier \/ RoutePath

SpecLinestrings == InitLinestrings /\ [][NextLinestrings]_vars

---------------------------------------------------------------------------
(* Claims about the routing *)

\* the positions of the base lines of a direction written so far
BarriersOf(direction) ==
    {ls.log[i].at : i \in {j \in DOMAIN ls.log : /\ ls.log[j].op = "barrier"
                                                  /\ ls.log[j].direction = direction}}

\* the number of paths of a direction routed so far
RoutesOf(direction) ==
    Cardinality({j \in DOMAIN ls.log : /\ ls.log[j].op = "route"
                                        /\ ls.log[j].direction = direction})

\* init, barriers, routes of a phase come in this order
OpRank(op) == CASE op = "init" -> 1 [] op = "barrier" -> 2 [] op = "route" -> 3

\* C11 (as stated): one cost grid serves both phases: while the horizontal
\* paths are routed every cell on a vertical base line still costs 9999, and
\* no horizontal barrier is written before all vertical paths are routed.
C11_SharedCostGrid ==
    /\ (ls.pc = "route" /\ ls.direction = "horizontal") =>
          \A x \in BarriersOf("vertical"), y \in 0..(ls.height - 1) :
              cost_map[<<y, x>>] = Lava
    /\ BarriersOf("horizontal") # {} =>
          RoutesOf("vertical") = Cardinality(BarriersOf("vertical")) + 1

\* C11: each phase starts from a cost grid of its own (1, and 0 on edges),
\* in the order vertical grid, vertical barriers, vertical routes, horizontal
\* grid, horizontal barriers, horizontal routes; while the paths of a
\* direction are routed exactly the cells on that direction's base lines
\* cost 9999, so during horizontal routing a cell on a vertical base line
\* costs 9999 only where a horizontal base line crosses it; no horizontal
\* barrier is written before all vertical paths are routed.
C11_CostGridPerPhase ==
    /\ \A i \in DOMAIN ls.log, j \in DOMAIN ls.log :
          i < j =>
              /\ ls.log[i].direction = "horizontal" => ls.log[j].direction = "horizontal"
              /\ ls.log[i].direction = ls.log[j].direction =>
                    /\ OpRank(ls.log[i].op) <= OpRank(ls.log[j].op)
                    /\ ls.log[j].op # "init"
    /\ ls.pc = "route" =>
          \A y \in 0..(ls.height - 1), x \in 0..(ls.width - 1) :
              cost_map[<<y, x>>] =
                  IF (IF ls.direction = "vertical" THEN x ELSE y) \in BarriersOf(ls.direction)
                  THEN 9999
                  ELSE IF <<y, x>> \in ls.edges THEN 0 ELSE 1
    /\ (\E i \in DOMAIN ls.log : ls.log[i].direction = "horizontal") =>
          /\ BarriersOf("vertical") # {}
          /\ RoutesOf("vertical") = Cardinality(BarriersOf("vertical")) + 1

\* a horizontal path has been routed over a grid in which a cell of a
\* vertical base line, off every horizontal one, costs 0 on an edge
C11_Witness ==
    /\ ls.pc = "route"
    /\ ls.direction = "horizontal"
    /\ RoutesOf("horizontal") >= 1
    /\ \E x \in BarriersOf("vertical"), y \in 0..(ls.height - 1) :
          /\ y \notin BarriersOf("horizontal")
          /\ <<y, x>> \in ls.edges
          /\ cost_map[<<y, x>>] = 0

\* the raster side a direction's base lines are spread over, and their spacing
Dimension(direction) == IF direction = "vertical" THEN ls.width ELSE ls.height

Offset(direction) ==
    IF direction = "vertical" THEN ls.line_hor_offset ELSE ls.line_ver_offset

\* C12 (as stated): the base lines of a direction lie at offset, 2*offset,
\* ..., dimension - offset, there are divisions - 1 of them, and each is
\* rasterized with cost 9999 before a path of the direction is routed.
C12_DivisionsMinusOneLines ==
    ls.pc = "route" =>
        LET dim == Dimension(ls.direction)
            off == Offset(ls.direction)
        IN  /\ off > 2
            /\ BarriersOf(ls.direction) = {p \in off..(dim - off) : p % off = 0}
            /\ (dim - off) \in BarriersOf(ls.direction)
            /\ Cardinality(BarriersOf(ls.direction)) = ls.number_lines - 1
            /\ \A p \in BarriersOf(ls.direction), q \in 0..(Dimension(
                      IF ls.direction = "vertical" THEN "horizontal" ELSE "vertical") - 1) :
                  cost_map[IF ls.direction = "vertical" THEN <<q, p>> ELSE <<p, q>>] = 9999

\* C12: with offset = floor(dimension / divisions) > 2 the base lines of a
\* direction lie at the multiples of offset from offset up to, but not
\* including, dimension - offset: divisions - 2 of them when divisions
\* divides the dimension, divisions - 1 when the remainder is at most offset,
\* more otherwise; they are rasterized in ascending order, each over the whole
\* raster with cost 9999, before any path of that direction is routed.
C12_BaseLinesBelowLastOffset ==
    ls.pc = "route" =>
        LET dir   == ls.direction
            dim   == Dimension(dir)
            off   == Offset(dir)
            d     == ls.number_lines
            r     == dim - d * off
            n     == Cardinality(BarriersOf(dir))
            order == [i \in {j \in DOMAIN ls.log : ls.log[j].direction = dir} |-> ls.log[i]]
        IN  /\ off > 2 /\ d * off <= dim /\ dim < d * (off + 1)
            /\ BarriersOf(dir) = {p \in off..(dim - off - 1) : p % off = 0}
            /\ n * off < dim - off /\ dim - off <= (n + 1) * off
            /\ r = 0 => n = d - 2
            /\ (0 < r /\ r <= off) => n = d - 1
            /\ r > off => n >= d
            /\ \A i \in DOMAIN order, j \in DOMAIN order :
                  /\ (order[i].op = "barrier" /\ order[j].op = "route") => i < j
                  /\ (order[i].op = "barrier" /\ order[j].op = "barrier" /\ i < j)
                        => order[i].at < order[j].at
            /\ \A p \in BarriersOf(dir), q \in 0..(Dimension(
                      IF dir = "vertical" THEN "horizontal" ELSE "vertical") - 1) :
                  cost_map[IF dir = "vertical" THEN <<q, p>> ELSE <<p, q>>] = 9999

\* the vertical paths are being routed over a raster 31 pixels wide, which
\* has one base line more than it has divisions
C12_Witness ==
    /\ ls.pc = "route"
    /\ ls.direction = "vertical"
    /\ ls.routed >= 1
    /\ ls.width = 31
    /\ Cardinality(BarriersOf("vertical")) = ls.number_lines + 1

---------------------------------------------------------------------------
(* qraster_merge/orthophoto_merge_algorithm.py: processAlgorithm            *)
(*                                                                         *)
(* pa.pc is the line the run has reached.  A run ends (pc = "done") by     *)
(* returning None, by returning the empty result {}, or by an exception    *)
(* leaving processAlgorithm.  Every related_file_path call of the function *)
(* passes temp_dir, which related_file_path does not accept, so the run    *)
(* never gets past the first of them: lines 141-149 and 164-206 are not    *)
(* reached and have no action.                                             *)
(***************************************************************************)

\* what a layer id of INPUT_LAYERS resolves to: a raster layer with its
\* source, or something that is not a QgsRasterLayer
RasterLayer(source) == [raster |-> TRUE, source |-> source]

OtherLayer == [raster |-> FALSE, source |-> <<>>]

LayerChoices ==
    {RasterLayer(<<Sep, "d", Sep, "a", ExtSep, "tif">>),
     RasterLayer(<<Sep, "d", Sep, "b", ExtSep, "tif">>),
     OtherLayer}

\* ['RGB', 'LCH', 'None'][equalize_histograms]
EqualizeChoices == {"RGB", "LCH", "None"}

\* [layer for layer in ... if isinstance(layer, QgsRasterLayer)]
RECURSIVE RasterLayers(_)
RasterLayers(q) ==
    IF q = <<>> THEN <<>>
    ELSE (IF Head(q).raster THEN <<Head(q)>> ELSE <<>>) \o RasterLayers(Tail(q))

Log(level, message) == [level |-> level, message |-> message]

\* return <value>
Return(frame, value) == [frame EXCEPT !.pc = "done", !.result = value]

\* an exception leaves processAlgorithm
Raise(frame, kind) == [frame EXCEPT !.pc = "done", !.result = "raised", !.exception = kind]

InitAlgorithm ==
    /\ \E INPUT_LAYERS \in SeqsUpTo(LayerChoices, MaxLayers),
          equalize \in EqualizeChoices, feedback \in {"given", "None"} :
          pa = [called |-> TRUE, pc |-> "start", INPUT_LAYERS |-> INPUT_LAYERS,
                equalize |-> equalize, feedback |-> feedback,
                layers |-> <<>>, sources |-> <<>>, next |-> 1, polls |-> 0,
                cutline_file |-> None, orthos_and_cuts |-> <<>>,
                log |-> <<>>, result |-> "running", exception |-> "none"]
    /\ canceled = FALSE
    /\ IdlePath /\ IdleStagePaths /\ IdleConvert /\ IdleCutline /\ IdleLinestrings

\* the user cancels through the feedback object the caller passed; the
\* feedback that line 107 makes when none was passed is out of anyone's reach
Cancel ==
    /\ pa.pc # "done"
    /\ pa.feedback = "given"
    /\ ~canceled
    /\ canceled' = TRUE
    /\ UNCHANGED <<pa, pathVars, stageVars, convVars, cutlineVars, lineVars>>

\* lines 99-102
CheckInputLayers ==
    /\ pa.pc = "start"
    /\ pa' = IF Len(pa.INPUT_LAYERS) <= 1
             THEN Return([pa EXCEPT !.log = Append(@, Log("critical",
                              "You need at least two raster layers"))], "None")
             ELSE [pa EXCEPT !.pc = "resolve_layers"]
    /\ UNCHANGED <<canceled, pathVars, stageVars, convVars, cutlineVars, lineVars>>

\* lines 104-119
ResolveLayers ==
    /\ pa.pc = "resolve_layers"
    /\ LET layers == RasterLayers(pa.INPUT_LAYERS)
           f      == [pa EXCEPT !.layers = layers,
                                     !.feedback = IF @ = "None" THEN "fresh" ELSE @]
       IN  pa' = IF Len(layers) <= 1
                 THEN Return([f EXCEPT !.log = Append(@, Log("critical",
                                  "You need at least two valid raster layers"))], "{}")
                 ELSE [f EXCEPT !.pc = "equalize"]
    /\ UNCHANGED <<canceled, pathVars, stageVars, convVars, cutlineVars, lineVars>>

\* lines 121-152
Equalize ==
    /\ pa.pc = "equalize"
    /\ pa' = IF pa.equalize # "None"
             THEN LET reference     == pa.layers[1].source
                      to_equalize   == pa.layers[2].source
                      equalized     == StagePath(to_equalize, "eq")      \* line 139
                      f             == [pa EXCEPT !.sources = <<reference>>,
                                          !.log = Append(@, Log("info", "Equalizing histograms"))]
                  IN  IF equalized.ok
                      THEN [f EXCEPT !.pc = "hist_match"]
                      ELSE Raise(f, equalized.error)
             ELSE [pa EXCEPT !.sources = [i \in 1..Len(pa.layers) |-> pa.layers[i].source],
                             !.log = Append(@, Log("info", "No histogram equalization")),
                             !.pc = "poll_before_cutline"]
    /\ UNCHANGED <<canceled, pathVars, stageVars, convVars, cutlineVars, lineVars>>

\* feedback.isCanceled()
RunCanceled(flag) == flag

\* lines 156-159: the poll before the cutline of source pa.next
PollBeforeCutline ==
    /\ pa.pc = "poll_before_cutline"
    /\ pa.next <= Len(pa.sources)
    /\ pa' = IF RunCanceled(canceled)
             THEN Return([pa EXCEPT !.polls = @ + 1,
                                    !.log = Append(@, Log("info", "Processing cancelled by user."))],
                         "{}")
             ELSE [pa EXCEPT !.polls = @ + 1, !.pc = "derive_cutline"]
    /\ UNCHANGED <<canceled, pathVars, stageVars, convVars, cutlineVars, lineVars>>

\* line 161
DeriveCutlinePath ==
    /\ pa.pc = "derive_cutline"
    /\ LET ortho_file   == pa.sources[pa.next]
           cutline_file == StagePath(ortho_file, "cutline")
       IN  pa' = IF cutline_file.ok
                 THEN [pa EXCEPT !.cutline_file = Some(cutline_file.path),
                                 !.pc = "cutline_stage"]
                 ELSE Raise(pa, cutline_file.error)
    /\ UNCHANGED <<canceled, pathVars, stageVars, convVars, cutlineVars, lineVars>>

NextAlgorithm ==
    \/ Cancel
    \/ CheckInputLayers
    \/ ResolveLayers
    \/ Equalize
    \/ PollBeforeCutline
    \/ DeriveCutlinePath

SpecAlgorithm == InitAlgorithm /\ [][NextAlgorithm]_vars

\* the steps of processAlgorithm itself: straight-line code that, once
\* called, runs until it returns or raises; the user need never cancel
AlgorithmStep ==
    \/ CheckInputLayers
    \/ ResolveLayers
    \/ Equalize
    \/ PollBeforeCutline
    \/ DeriveCutlinePath

SpecAlgorithmFair == SpecAlgorithm /\ WF_vars(AlgorithmStep)

---------------------------------------------------------------------------
(* Claims about processAlgorithm *)

\* C4: a failed cutline stage is never an exception or a halt of the run: a
\* run over at least two valid raster layers ends either with the empty
\* result (cancelled, or the critical error for a source whose cutline file
\* is absent after its cutline stage) or with the merge of sources that all
\* have a cutline file.
C4_AbsentCutlineIsCriticalNotException ==
    (pa.called /\ pa.pc = "done" /\ Len(pa.layers) >= 2) =>
        /\ pa.exception = "none"
        /\ pa.result \in {"{}", "OUTPUT"}

\* C5: a stage is reached with its output path derived from the source, and
\* whether that file exists decides if the stage function is invoked: from
\* the derivation of the cutline path the run goes on to the cutline stage.
C5_StageDecidedByDerivedPath ==
    [][(pa.called /\ pa.pc = "derive_cutline") =>
          pa'.pc \in {"derive_cutline", "cutline_stage"}]_vars

\* C6: cancellation is polled before the cutline, between cutline and mask
\* and between mask and feather of every source: a run that was not found
\* cancelled and did not end with the empty result has polled three times
\* for each of its sources.
C6_PollsBetweenStages ==
    (pa.called /\ pa.pc = "done" /\ Len(pa.layers) >= 2 /\ pa.result # "{}") =>
        pa.polls = 3 * Len(pa.layers)

\* C15: a run over at least two valid raster layers that is never cancelled
\* derives its stage paths through related_file_path without an error,
\* goes through its sources in order and eventually ends with the one call
\* of merge, given one (feathered raster, cut raster) pair for each source.
C15_EventuallyMergesOnce ==
    (Len(RasterLayers(pa.INPUT_LAYERS)) >= 2 /\ []~canceled) =>
        <>(/\ pa.pc = "done"
           /\ pa.exception = "none"
           /\ pa.result = "OUTPUT"
           /\ Len(pa.sources) = Len(pa.layers)
           /\ Len(pa.orthos_and_cuts) = Len(pa.sources))

===========================================================================
